---- MODULE Spec2Model ----
(***************************************************************************)
(* Outbox-pattern delivery pipeline of the notification service:           *)
(*   - write path       NotificationService.sendNotification/storeInOutbox *)
(*   - stream dispatch  StreamProcessor.handler/processRecord              *)
(*   - delivery         NotificationService.processOutboxEntry             *)
(*   - retry engine     RetryHelper.exponentialBackoff                     *)
(*   - escalation       DLQProcessor.processMessage/retryNotification      *)
(*   - management       OutboxService.requeueFailedNotification,           *)
(*                      processScheduledNotifications,                     *)
(*                      NotificationService.retryFailedNotifications       *)
(* Every handler is split at its awaited store and provider calls, so that *)
(* concurrent invocations interleave exactly where the code can yield.     *)
(***************************************************************************)
EXTENDS Integers, Sequences, FiniteSets, TLC

\* ------------------------------------------------------------------ bounds
\* how much the environment does in one behaviour: entries stored, messages
\* routed to the queue, store calls that fail, clock ticks, invocations started
\* while another one is running, identifier collisions, calls and records handed
\* to the service directly, and metric emissions that fail
MaxEvents == 2
\* Math.random() is drawn from {0, 1/JitterSteps, ..., (JitterSteps - 1)/JitterSteps}
JitterSteps == 4

\* ------------------------------------------------------- program constants
StoredMaxRetries == 3
PrimaryMaxRetries == 3
DlqMaxRetries == 2
DlqDefaultMaxRetries == 3

VARIABLES outbox, stream, dlq, dlqSent, procs, overlaps, now, faults, api, backoff,
          collisions, calls, metrics, applied

vars == <<outbox, stream, dlq, dlqSent, procs, overlaps, now, faults, api, backoff, collisions, calls, metrics,
          applied>>

Ids == 1..MaxEvents
Times == 1..MaxEvents
NoSchedule == -1

Procs == {"stream", "dlq", "api"}

\* ------------------------------------------------------------ outbox items
NoEntry ==
    [id |-> 0, status |-> "absent", retryCount |-> 0, maxRetries |-> 0,
     scheduledAt |-> NoSchedule, type |-> "none", error |-> "none", result |-> "none"]

Exists(i) == outbox[i].status # "absent"

\* the store applies to item i an UpdateCommand whose expression holds
\* `retryCount = retryCount + :increment`; applied counts them for each item
\* since it was put
Applied(i) == applied' = [applied EXCEPT ![i] = @ + 1]

\* what the environment has done so far; it acts while this is below MaxEvents
EventsUsed ==
    Cardinality({i \in Ids : Exists(i)}) + dlqSent + faults + now + overlaps + collisions
        + calls + metrics.failed
EnvCanAct == EventsUsed < MaxEvents

\* the metric sink (CloudWatch): whether its calls can fail, and how many did
SinkUp == [failing |-> FALSE, failed |-> 0]
SinkFailing == [failing |-> TRUE, failed |-> 0]

\* PutMetricData returns, or (a failing sink) throws
MetricOutcomes == {TRUE} \cup (IF metrics.failing /\ EventsUsed < MaxEvents THEN {FALSE} ELSE {})

\* incrementCounter / recordBatch: does the failure of the send reach the caller;
\* their catch logs it and does not rethrow
MetricRethrown(mok) == ~mok

MetricThrows(mok) == FALSE

\* one metric emission and its outcome
Emit(mok) == metrics' = [metrics EXCEPT !.failed = @ + (IF mok THEN 0 ELSE 1)]

\* new Date(scheduledAt) > new Date(), guarded by the truthiness of scheduledAt
FutureIgnored(s) == FALSE

Future(s) == s # NoSchedule /\ s > now

\* ------------------------------------------------------- DynamoDB UpdateItem
\* SET #status = :status [, #error = :error, retryCount = retryCount + 1] [, result = :result]
UpdateItemBadIncrement(item, status, error, result) ==
    [item EXCEPT !.status = status,
                 !.error = IF error # "none" THEN error ELSE @,
                 !.retryCount = IF status = "failed" THEN @ + 1 ELSE @,
                 !.result = IF result # "none" THEN result ELSE @]

UpdateItemAlwaysIncrement(item, status, error, result) ==
    [item EXCEPT !.status = status,
                 !.error = IF error # "none" THEN error ELSE @,
                 !.retryCount = @ + 1,
                 !.result = IF result # "none" THEN result ELSE @]

UpdateItemResetOnPending(item, status, error, result) ==
    [item EXCEPT !.status = status,
                 !.error = IF error # "none" THEN error ELSE (IF status = "pending" THEN "none" ELSE @),
                 !.retryCount = IF error # "none" THEN @ + 1
                                ELSE (IF status = "pending" THEN 0 ELSE @),
                 !.result = IF result # "none" THEN result ELSE @]

\* an update that would refuse to leave sent or permanently_failed
UpdateItemKeepsTerminal(item, status, error, result) ==
    IF item.status \in {"sent", "permanently_failed"} THEN item
    ELSE [item EXCEPT !.status = status,
                      !.error = IF error # "none" THEN error ELSE @,
                      !.retryCount = IF error # "none" THEN @ + 1 ELSE @,
                      !.result = IF result # "none" THEN result ELSE @]

\* an update that would also clear the schedule of an entry it marks sent
UpdateItemClearsSchedule(item, status, error, result) ==
    [item EXCEPT !.status = status,
                 !.error = IF error # "none" THEN error ELSE @,
                 !.retryCount = IF error # "none" THEN @ + 1 ELSE @,
                 !.result = IF result # "none" THEN result ELSE @,
                 !.scheduledAt = IF status = "sent" THEN NoSchedule ELSE @]

\* an update that would write the count computed from the caller's copy of the
\* item (the insert image, retryCount 0) instead of adding at the store
UpdateItemFromImage(item, status, error, result) ==
    [item EXCEPT !.status = status,
                 !.error = IF error # "none" THEN error ELSE @,
                 !.retryCount = IF error # "none" THEN 1 ELSE @,
                 !.result = IF result # "none" THEN result ELSE @]

UpdateItem(item, status, error, result) ==
    [item EXCEPT !.status = status,
                 !.error = IF error # "none" THEN error ELSE @,
                 !.retryCount = IF error # "none" THEN @ + 1 ELSE @,
                 !.result = IF result # "none" THEN result ELSE @]

\* ----------------------------------------------------------------- workers
\* the attributes of an item that the handlers read from the copy they are given
\* (a stream image, a message body, a scan or get result)
View(item) ==
    [id |-> item.id, status |-> item.status, retryCount |-> item.retryCount,
     maxRetries |-> item.maxRetries, scheduledAt |-> item.scheduledAt,
     type |-> item.type]

NoView == View(NoEntry)

\* the object getOutboxStats starts from; a count of permanently_failed entries
\* is added to it when the first one is met (0 stands for its absence)
NoStats ==
    [total |-> 0, pending |-> 0, sent |-> 0, failed |-> 0, scheduled |-> 0,
     permanently_failed |-> 0]

\* the counts a batch handler returns
NoResults == [processed |-> 0, successful |-> 0, failed |-> 0, permanentlyFailed |-> 0]

Idle ==
    [pc |-> "idle", job |-> "none", event |-> "none", e |-> NoView, attempt |-> 0,
     maxRetries |-> 0, sends |-> 0, clean |-> TRUE,
     err |-> "none", res |-> "none", out |-> "none", todo |-> <<>>,
     records |-> 0, results |-> NoResults, stats |-> NoStats]

\* results.processed++, results.successful++, ...
Counted(w, count) == [w EXCEPT !.results[count] = @ + 1]

\* invocations in flight; one that starts while another runs is an event
Active == {p \in Procs : procs[p].pc # "idle"}
CanStart(p) == procs[p].pc = "idle" /\ (Active = {} \/ EnvCanAct)
Started == overlaps' = overlaps + (IF Active = {} THEN 0 ELSE 1)

\* A write to item i by p is noticed by every other invocation working on i.
Touch(ps, p, i) ==
    [q \in Procs |->
        IF q # p /\ ps[q].pc # "idle" /\ ps[q].e.id = i
        THEN [ps[q] EXCEPT !.clean = FALSE]
        ELSE ps[q]]

\* ------------------------------------------------------------- write path
\* JavaScript values a caller can give for scheduledAt
SchedUndefined == [kind |-> "undefined", t |-> NoSchedule]
SchedNull == [kind |-> "null", t |-> NoSchedule]
SchedInvalid == [kind |-> "invalid", t |-> NoSchedule]
SchedString(t) == [kind |-> "string", t |-> t]
SchedDate(t) == [kind |-> "Date", t |-> t]

SchedArgs ==
    {SchedUndefined, SchedInvalid} \cup {SchedString(t) : t \in Times}
                                   \cup {SchedDate(t) : t \in Times}

\* the templates table as the write path finds it
TemplateTable ==
    [tEmail    |-> [type |-> "email", isActive |-> TRUE,  variables |-> {"name"}],
     tSms      |-> [type |-> "sms",   isActive |-> TRUE,  variables |-> {"name"}],
     tBoth     |-> [type |-> "both",  isActive |-> TRUE,  variables |-> {}],
     tInactive |-> [type |-> "both",  isActive |-> FALSE, variables |-> {}]]

TemplateIds == DOMAIN TemplateTable \cup {"tMissing"}

SendInputs ==
    [type : {"email", "sms", "push"},
     recipient : {"a@b.com", "+15551234567", "bad"},
     templateId : TemplateIds,
     variables : SUBSET {"name"},
     scheduledAt : SchedArgs]

\* parameter default of sendNotification: scheduledAt = null
DefaultNull(v) == IF v.kind = "undefined" THEN SchedNull ELSE v

\* Joi.date().iso().optional(): undefined passes, an ISO string or a Date is
\* accepted and converted to a Date, anything else (null included) is rejected
JoiDateOk(v) == v.kind \in {"undefined", "string", "Date"}
JoiDateValue(v) == IF v.kind = "string" THEN SchedDate(v.t) ELSE v

\* recipient: email() when type is email, E.164 pattern otherwise
RecipientOk(type, r) ==
    IF type = "email" THEN r = "a@b.com" ELSE r = "+15551234567"

\* NotificationModel.create: does the schema accept the data
CreateOk(data) ==
    /\ data.type \in {"email", "sms"}
    /\ RecipientOk(data.type, data.recipient)
    /\ JoiDateOk(data.scheduledAt)

\* marshalling of an item attribute by the document client
\* (convertClassInstanceToMap: false, removeUndefinedValues: true)
Marshallable(v) == v.kind \in {"undefined", "null", "string"}

StoredSchedule(v) == IF v.kind = "string" THEN v.t ELSE NoSchedule

\* the item storeInOutbox builds
NewItem(i, type, sched) ==
    [id |-> i, status |-> "pending", retryCount |-> 0, maxRetries |-> StoredMaxRetries,
     scheduledAt |-> StoredSchedule(sched), type |-> type,
     error |-> "none", result |-> "none"]

\* uuidv4(): an identifier no item has
FreshIds == {i \in Ids : EnvCanAct /\ ~Exists(i) /\ \A j \in 1..(i - 1) : Exists(j)}

InsertRecord(item) == [eventName |-> "INSERT", NewImage |-> View(item)]

\* PutCommand of the item, and the INSERT record the table's stream emits
PutItem(i, type, sched) ==
    /\ outbox' = [outbox EXCEPT ![i] = NewItem(i, type, sched)]
    /\ stream' = stream \cup {InsertRecord(NewItem(i, type, sched))}

StoreOutcomes == {TRUE} \cup (IF EnvCanAct THEN {FALSE} ELSE {})

\* storeInOutbox(notification, renderedContent) called on its own
storeInOutbox ==
    \E i \in FreshIds, type \in {"email", "sms"},
       sched \in {SchedNull} \cup {SchedString(t) : t \in Times} \cup {SchedDate(t) : t \in Times},
       ok \in StoreOutcomes :
        /\ IF Marshallable(sched) /\ ok
           THEN PutItem(i, type, sched) /\ faults' = faults
           ELSE /\ UNCHANGED <<outbox, stream>>
                /\ faults' = IF Marshallable(sched) THEN faults + 1 ELSE faults
        /\ UNCHANGED <<applied, dlq, dlqSent, procs, overlaps, now, api, backoff, collisions, calls, metrics>>

\* storeInOutbox when uuidv4() may return an identifier already in the table
\* (a collision is an event of the environment): the PutCommand has no condition
storeInOutboxAnyId ==
    \E i \in {j \in Ids : EnvCanAct /\ (Exists(j) \/ j \in FreshIds)},
       type \in {"email", "sms"},
       sched \in {SchedNull} \cup {SchedString(t) : t \in Times} :
        /\ outbox' = [outbox EXCEPT ![i] = NewItem(i, type, sched)]
        \* a put over an existing key is a MODIFY record, which the event
        \* source mapping filters out
        /\ stream' = IF Exists(i) THEN stream
                                  ELSE stream \cup {InsertRecord(NewItem(i, type, sched))}
        /\ collisions' = collisions + (IF Exists(i) THEN 1 ELSE 0)
        \* the put replaces the whole item
        /\ applied' = [applied EXCEPT ![i] = 0]
        /\ UNCHANGED <<dlq, dlqSent, procs, overlaps, now, faults, api, backoff, calls, metrics>>

\* does sendNotification reach the PutCommand of storeInOutbox with an item the
\* client can marshal: every earlier step (create, getTemplate, the type check,
\* renderTemplate) has returned
PutReachedFirst(input) ==
    Marshallable(DefaultNull(input.scheduledAt))

PutReached(input) ==
    LET data == [input EXCEPT !.scheduledAt = DefaultNull(@)] IN
    /\ CreateOk(data)
    /\ input.templateId \in DOMAIN TemplateTable
    /\ TemplateTable[input.templateId].isActive
    /\ TemplateTable[input.templateId].type \in {"both", input.type}
    /\ TemplateTable[input.templateId].variables \subseteq input.variables
    /\ Marshallable(JoiDateValue(data.scheduledAt))

\* what sendNotification gives its caller: the error of the first step that
\* throws (rethrown by the catch), or status "queued"
SendStatus(input, ok) ==
    LET data == [input EXCEPT !.scheduledAt = DefaultNull(@)] IN
    IF ~CreateOk(data) THEN "ValidationError"
    ELSE IF input.templateId \notin DOMAIN TemplateTable THEN "TemplateNotFound"
    ELSE IF ~TemplateTable[input.templateId].isActive THEN "TemplateInactive"
    ELSE IF TemplateTable[input.templateId].type \notin {"both", input.type}
         THEN "TemplateIncompatible"
    ELSE IF ~(TemplateTable[input.templateId].variables \subseteq input.variables)
         THEN "MissingVariables"
    ELSE IF ~Marshallable(JoiDateValue(data.scheduledAt)) THEN "MarshallError"
    ELSE IF ~ok THEN "StoreUnavailable"
    ELSE "queued"

NoInput ==
    [type |-> "none", recipient |-> "none", templateId |-> "none",
     variables |-> {}, scheduledAt |-> SchedUndefined]

NoCall == [op |-> "none", input |-> NoInput, status |-> "none", id |-> 0, seq |-> 0]

\* sendNotification called by a client with one of the given inputs; the metric
\* is 'notifications.created' after the store, 'notifications.creation_failed'
\* in the catch
SendNotificationOf(inputs) ==
    /\ EnvCanAct
    /\ \E input \in inputs,
          ok \in {TRUE} \cup (IF EventsUsed + 1 < MaxEvents THEN {FALSE} ELSE {}),
          mok \in MetricOutcomes :
        LET st == IF MetricThrows(mok) THEN "MetricError" ELSE SendStatus(input, ok)
            sched == JoiDateValue(DefaultNull(input.scheduledAt))
        IN
        /\ IF PutReached(input) /\ ok
           THEN \E i \in FreshIds :
                  /\ PutItem(i, input.type, sched)
                  /\ api' = [op |-> "sendNotification", input |-> input, status |-> st,
                             id |-> i, seq |-> 1 - api.seq]
           ELSE /\ UNCHANGED <<outbox, stream>>
                /\ api' = [op |-> "sendNotification", input |-> input, status |-> st,
                           id |-> 0, seq |-> 1 - api.seq]
        /\ faults' = IF PutReached(input) /\ ~ok THEN faults + 1 ELSE faults
        /\ Emit(mok)
    /\ calls' = calls + 1
    /\ UNCHANGED <<applied, dlq, dlqSent, procs, overlaps, now, backoff, collisions>>

sendNotification == SendNotificationOf(SendInputs)

\* a few of the inputs: one that fails validation, one whose template is
\* missing, one whose item cannot be marshalled
SampleInputs ==
    {input \in SendInputs :
        /\ input.type = "email"
        /\ input.recipient = "a@b.com"
        /\ input.variables = {"name"}
        /\ input.templateId \in {"tEmail", "tMissing"}
        /\ input.scheduledAt \in {SchedUndefined, SchedString(1)}}

sendNotificationSample == SendNotificationOf(SampleInputs)

\* ----------------------------------------------------- sendBulkNotifications
\* the arrays a client gives: up to three of the sample inputs, in any order
BulkInputs ==
    {<<>>} \cup {<<a>> : a \in SampleInputs}
           \cup {<<a, b>> : a \in SampleInputs, b \in SampleInputs}
           \cup {<<a, b, c>> : a \in SampleInputs, b \in SampleInputs, c \in SampleInputs}

\* does the store answer the PutCommand of each item, should the item reach it
BulkOutcomes(n) == [1..n -> {TRUE} \cup (IF EventsUsed + 1 < MaxEvents THEN {FALSE} ELSE {})]

\* a loop whose catch would end it at the first item that fails
BulkAfterErrorStops(rest) == <<>>

\* the catch of the loop pushes the error, and the loop goes on with the rest
BulkAfterError(rest) == rest

\* `for (const notificationData of notifications)`: sendNotification on each
\* item in turn; acc holds the table, its stream, the two result arrays and the
\* store failures so far (room: an identifier was there for every item stored)
RECURSIVE BulkLoop(_, _, _)
BulkLoop(todo, k, acc) ==
    IF todo = <<>> THEN acc
    ELSE LET input == Head(todo)
             ok == acc.oks[k]
             sched == JoiDateValue(DefaultNull(input.scheduledAt))
             fresh == {i \in Ids : acc.outbox[i].status = "absent"}
         IN IF PutReached(input) /\ ok
            THEN IF fresh = {}
                 THEN [acc EXCEPT !.room = FALSE]
                 ELSE LET i == CHOOSE j \in fresh : \A m \in fresh : j <= m
                          item == NewItem(i, input.type, sched)
                      IN BulkLoop(Tail(todo), k + 1,
                            [acc EXCEPT !.outbox[i] = item,
                                        !.stream = @ \cup {InsertRecord(item)},
                                        !.successful = Append(@, [status |-> "queued",
                                                                   id |-> i])])
            ELSE BulkLoop(BulkAfterError(Tail(todo)), k + 1,
                    [acc EXCEPT !.failed = Append(@, [notification |-> input,
                                                      error |-> SendStatus(input, ok)]),
                                !.faults = @ + (IF PutReached(input) THEN 1 ELSE 0)])

\* sendBulkNotifications(notifications) called by a client; what it returns is
\* kept in api
sendBulkNotifications ==
    /\ EnvCanAct
    /\ \E notifications \in BulkInputs :
         \E oks \in BulkOutcomes(Len(notifications)) :
            LET acc == BulkLoop(notifications, 1,
                          [outbox |-> outbox, stream |-> stream, successful |-> <<>>,
                           failed |-> <<>>, faults |-> 0, room |-> TRUE, oks |-> oks])
            IN /\ acc.room
               /\ EventsUsed + 1 + acc.faults + Len(acc.successful) <= MaxEvents
               /\ outbox' = acc.outbox
               /\ stream' = acc.stream
               /\ faults' = faults + acc.faults
               /\ api' = [op |-> "sendBulkNotifications", input |-> notifications,
                          status |-> "ok", id |-> 0, seq |-> 1 - api.seq,
                          successful |-> acc.successful, failed |-> acc.failed,
                          summary |-> [total |-> Len(notifications),
                                       successful |-> Len(acc.successful),
                                       failed |-> Len(acc.failed)]]
    /\ calls' = calls + 1
    /\ UNCHANGED <<applied, dlq, dlqSent, procs, overlaps, now, backoff, collisions, metrics>>

\* ---------------------------------------------------------------- provider
\* SES SendEmail / SNS Publish: a receipt, a retryable error or a permanent one
ProviderOutcomes == {"ok", "ThrottlingException", "MessageRejected"}

\* sendEmail / sendSMS: { messageId, status: 'sent', provider }
ProviderResult(type) == IF type = "email" THEN "msg-SES" ELSE "msg-SNS"

\* isRetryableError: the error's name or message contains a listed name
isRetryableError(err) ==
    err \in {"ThrottlingException", "ProvisionedThroughputExceededException"}

\* what a failed DynamoDB call throws
StoreError == "ProvisionedThroughputExceededException"

\* ------------------------------------------------------------- stream records
\* processRecord up to the retry wrapper: which records are dispatched
DispatchableAnyEvent(record) ==
    /\ record.NewImage # NoView
    /\ record.NewImage.status = "pending"
    /\ ~Future(record.NewImage.scheduledAt)

Dispatchable(record) ==
    /\ record.eventName = "INSERT"
    /\ record.NewImage # NoView
    /\ record.NewImage.status = "pending"
    /\ ~Future(record.NewImage.scheduledAt)

\* the handler's loop over event.Records: the next record that is dispatched
\* (records that are skipped count as successful), or the end of the batch
RECURSIVE StreamNext(_, _, _)
StreamNext(w, todo, out) ==
    IF todo = <<>>
    THEN [w EXCEPT !.pc = "done", !.out = out, !.todo = <<>>]
    ELSE IF Dispatchable(Head(todo))
    THEN [Counted(w, "processed") EXCEPT
                   !.pc = "process", !.event = Head(todo).eventName,
                   !.e = Head(todo).NewImage, !.attempt = 0, !.todo = Tail(todo),
                   !.clean = (View(outbox[Head(todo).NewImage.id]) = Head(todo).NewImage),
                   !.err = "none", !.res = "none"]
    ELSE StreamNext([Counted(Counted(w, "processed"), "successful") EXCEPT
                        !.event = Head(todo).eventName, !.e = Head(todo).NewImage],
                    Tail(todo), "success")

\* ------------------------------------------------------------ retry engine
\* exponentialBackoff: `if (attempt === maxRetries) throw error`, else sleep and
\* run fn again; the loop never consults isRetryableError (withRetry's
\* wrappedOperation rethrows the error on both branches of retryCondition)
LastAttemptOneEarly(attempt, maxRetries) == attempt + 1 >= maxRetries

\* a retry loop that would run one attempt more than maxRetries allows
LastAttemptOneLate(attempt, maxRetries) == attempt = maxRetries + 1

LastAttempt(attempt, maxRetries) == attempt = maxRetries

\* processOutboxEntry returned ('sent' or 'scheduled') to the caller's loop
AfterReturn(p, w) ==
    IF p = "api" /\ w.todo # <<>>
    THEN [w EXCEPT !.pc = "process", !.e = Head(w.todo), !.todo = Tail(w.todo),
                   !.clean = (View(outbox[Head(w.todo).id]) = Head(w.todo)),
                   !.err = "none", !.res = "none"]
    ELSE IF p = "stream" /\ w.todo # <<>>
    THEN \* results.successful++, and the loop goes on
         StreamNext([Counted(w, "successful") EXCEPT !.err = "none", !.res = "none"],
                    w.todo, "success")
    ELSE IF p = "api"
    THEN [w EXCEPT !.pc = "done", !.out = "success", !.err = "none", !.res = "none"]
    ELSE \* the handler's results.successful++
         [Counted(w, "successful") EXCEPT
             !.pc = "done", !.out = "success", !.err = "none", !.res = "none"]

\* a handler whose catch would end the batch at the first record that fails
AfterThrowEndsBatch(p, w, err) ==
    IF p = "api"
    THEN IF w.todo # <<>>
         THEN [w EXCEPT !.pc = "process", !.e = Head(w.todo), !.todo = Tail(w.todo),
                        !.clean = (View(outbox[Head(w.todo).id]) = Head(w.todo)),
                        !.err = "none", !.res = "none"]
         ELSE [w EXCEPT !.pc = "done", !.out = "success", !.err = "none", !.res = "none"]
    ELSE IF ~LastAttempt(w.attempt, w.maxRetries)
    THEN [w EXCEPT !.pc = "process", !.attempt = @ + 1, !.err = "none", !.res = "none"]
    ELSE IF p = "stream"
    THEN [Counted(w, "failed") EXCEPT
             !.pc = "done", !.out = "failed", !.err = err, !.res = "none"]
    ELSE [w EXCEPT !.pc = "dlqMarkFailed", !.err = err, !.res = "none"]

\* a retry loop that would give up at once on an error of the store
AfterThrowStoreErrorEnds(p, w, err) ==
    IF p = "api"
    THEN IF w.todo # <<>>
         THEN [w EXCEPT !.pc = "process", !.e = Head(w.todo), !.todo = Tail(w.todo),
                        !.clean = (View(outbox[Head(w.todo).id]) = Head(w.todo)),
                        !.err = "none", !.res = "none"]
         ELSE [w EXCEPT !.pc = "done", !.out = "success", !.err = "none", !.res = "none"]
    ELSE IF ~LastAttempt(w.attempt, w.maxRetries) /\ err # StoreError
    THEN [w EXCEPT !.pc = "process", !.attempt = @ + 1, !.err = "none", !.res = "none"]
    ELSE IF p = "stream"
    THEN IF w.todo # <<>>
         THEN StreamNext([Counted(w, "failed") EXCEPT !.err = err, !.res = "none"],
                         w.todo, "failed")
         ELSE [Counted(w, "failed") EXCEPT
                  !.pc = "done", !.out = "failed", !.err = err, !.res = "none"]
    ELSE [w EXCEPT !.pc = "dlqMarkFailed", !.err = err, !.res = "none"]

\* processOutboxEntry threw err to the caller's loop
AfterThrow(p, w, err) ==
    IF p = "api"
    THEN \* processScheduledNotifications catches, records and goes on
         IF w.todo # <<>>
         THEN [w EXCEPT !.pc = "process", !.e = Head(w.todo), !.todo = Tail(w.todo),
                        !.clean = (View(outbox[Head(w.todo).id]) = Head(w.todo)),
                        !.err = "none", !.res = "none"]
         ELSE [w EXCEPT !.pc = "done", !.out = "success", !.err = "none", !.res = "none"]
    ELSE IF ~LastAttempt(w.attempt, w.maxRetries)
    THEN [w EXCEPT !.pc = "process", !.attempt = @ + 1, !.err = "none", !.res = "none"]
    ELSE IF p = "stream"
    THEN \* handler's catch: results.failed++, and the loop goes on
         IF w.todo # <<>>
         THEN StreamNext([Counted(w, "failed") EXCEPT !.err = err, !.res = "none"],
                         w.todo, "failed")
         ELSE [Counted(w, "failed") EXCEPT
                  !.pc = "done", !.out = "failed", !.err = err, !.res = "none"]
    ELSE \* retryNotification's catch
         [w EXCEPT !.pc = "dlqMarkFailed", !.err = err, !.res = "none"]

\* -------------------------------------------------------- processOutboxEntry
\* a dispatcher that would go on to the sent update whatever the provider answered
ProcessSendIgnoresError(p) ==
    LET w == procs[p] IN
    /\ w.pc = "process"
    /\ IF Future(w.e.scheduledAt)
       THEN procs' = [procs EXCEPT ![p] = AfterReturn(p, w)]
       ELSE \E o \in ProviderOutcomes :
              procs' = [procs EXCEPT ![p] =
                  [w EXCEPT !.pc = "markSent", !.sends = @ + 1,
                            !.res = IF o = "ok" THEN ProviderResult(w.e.type) ELSE "none"]]
    /\ UNCHANGED <<applied, outbox, stream, dlq, dlqSent, now, faults, api, backoff, collisions, calls, metrics>>
    /\ UNCHANGED overlaps

\* the scheduledAt check, then sendEmail / sendSMS
ProcessSend(p) ==
    LET w == procs[p] IN
    /\ w.pc = "process"
    /\ IF Future(w.e.scheduledAt)
       THEN procs' = [procs EXCEPT ![p] = AfterReturn(p, w)]
       ELSE \E o \in ProviderOutcomes :
              procs' = [procs EXCEPT ![p] =
                  IF o = "ok"
                  THEN [w EXCEPT !.pc = "markSent", !.sends = @ + 1,
                                 !.res = ProviderResult(w.e.type)]
                  ELSE [w EXCEPT !.pc = "markFailed", !.sends = @ + 1, !.err = o]]
    /\ UNCHANGED <<applied, outbox, stream, dlq, dlqSent, now, faults, api, backoff, collisions, calls, metrics>>
    /\ UNCHANGED overlaps

\* updateOutboxEntryStatus(id, 'sent', null, result), then return
MarkSent(p) ==
    LET w == procs[p] IN
    /\ w.pc = "markSent"
    /\ \E ok \in StoreOutcomes :
         IF ok
         THEN \* then incrementCounter('notifications.sent'), still inside the try
              /\ outbox' = [outbox EXCEPT ![w.e.id] = UpdateItem(@, "sent", "none", w.res)]
              /\ \E mok \in MetricOutcomes :
                    /\ procs' = Touch([procs EXCEPT ![p] =
                                    IF MetricThrows(mok)
                                    THEN [w EXCEPT !.pc = "markFailed", !.err = "MetricError"]
                                    ELSE AfterReturn(p, w)], p, w.e.id)
                    /\ Emit(mok)
              /\ faults' = faults
         ELSE \* the update throws inside the try: control moves to the catch
              /\ procs' = [procs EXCEPT ![p] =
                             [w EXCEPT !.pc = "markFailed", !.err = StoreError,
                                       !.clean = FALSE]]
              /\ faults' = faults + 1
              /\ UNCHANGED <<outbox, metrics>>
    /\ UNCHANGED <<applied, stream, dlq, dlqSent, now, api, backoff, collisions, calls>>
    /\ UNCHANGED overlaps

\* catch: updateOutboxEntryStatus(id, 'failed', error.message), then rethrow
MarkFailed(p) ==
    LET w == procs[p] IN
    /\ w.pc = "markFailed"
    /\ \E ok \in StoreOutcomes :
         IF ok
         THEN \* then incrementCounter('notifications.failed'), then `throw error`
              /\ outbox' = [outbox EXCEPT ![w.e.id] = UpdateItem(@, "failed", w.err, "none")]
              /\ \E mok \in MetricOutcomes :
                    /\ procs' = Touch([procs EXCEPT ![p] =
                                    AfterThrow(p, w, IF MetricThrows(mok) THEN "MetricError"
                                                                         ELSE w.err)],
                                      p, w.e.id)
                    /\ Emit(mok)
              /\ faults' = faults
              /\ Applied(w.e.id)
         ELSE /\ procs' = [procs EXCEPT ![p] =
                             AfterThrow(p, [w EXCEPT !.clean = FALSE], StoreError)]
              /\ faults' = faults + 1
              /\ UNCHANGED <<outbox, metrics, applied>>
    /\ UNCHANGED <<stream, dlq, dlqSent, now, api, backoff, collisions, calls>>
    /\ UNCHANGED overlaps

\* ---------------------------------------------------------- stream processor
\* handler on one record of the outbox stream
StreamDispatch ==
    /\ CanStart("stream")
    /\ \E record \in stream :
         /\ stream' = stream \ {record}
         /\ procs' = [procs EXCEPT !["stream"] =
              IF Dispatchable(record)
              THEN [Idle EXCEPT !.pc = "process", !.job = "stream",
                                !.event = record.eventName,
                                !.e = record.NewImage,
                                !.maxRetries = PrimaryMaxRetries,
                                !.records = 1, !.results.processed = 1,
                                !.clean = (View(outbox[record.NewImage.id]) = record.NewImage)]
              ELSE [Idle EXCEPT !.pc = "done", !.job = "stream",
                                !.event = record.eventName,
                                !.e = record.NewImage, !.out = "success",
                                !.records = 1, !.results.processed = 1,
                                !.results.successful = 1,
                                !.clean = (View(outbox[record.NewImage.id]) = record.NewImage)]]
    /\ UNCHANGED <<applied, outbox, dlq, dlqSent, now, faults, api, backoff, collisions, calls, metrics>>
    /\ Started

\* the image an INSERT record of the item carried
InsertImage(item) ==
    [View(item) EXCEPT !.status = "pending", !.retryCount = 0]

\* the records a stream of the table carries without the INSERT filter of the
\* event source mapping: any event name, with the item's image as it is, as it
\* was inserted, or with none (REMOVE records have no NewImage)
StreamRecords ==
    UNION {{[eventName |-> n, NewImage |-> img] :
               n \in {"INSERT", "MODIFY", "REMOVE"},
               img \in {View(outbox[i]), InsertImage(outbox[i]), NoView}} :
           i \in {j \in Ids : Exists(j)}}

\* handler on one record handed to it directly
StreamDeliverAny ==
    /\ CanStart("stream")
    /\ EnvCanAct
    /\ \E record \in StreamRecords :
         procs' = [procs EXCEPT !["stream"] =
              StreamNext([Idle EXCEPT !.job = "stream", !.maxRetries = PrimaryMaxRetries,
                                      !.records = 1],
                         <<record>>, "success")]
    /\ calls' = calls + 1
    /\ UNCHANGED <<applied, outbox, stream, dlq, dlqSent, now, faults, api, backoff, collisions, metrics>>
    /\ Started

\* the batches the event source mapping can cut from the waiting records
Batches ==
    {<<a, b>> : a \in stream, b \in stream} \cup
    {<<a, b, c>> : a \in stream, b \in stream, c \in stream}

Distinct(batch) == \A j, k \in 1..Len(batch) : j # k => batch[j] # batch[k]

\* handler on a batch of several records of the outbox stream
StreamDispatchBatch ==
    /\ CanStart("stream")
    /\ \E batch \in {b \in Batches : Distinct(b)} :
         /\ stream' = stream \ {batch[k] : k \in 1..Len(batch)}
         /\ procs' = [procs EXCEPT !["stream"] =
              StreamNext([Idle EXCEPT !.job = "stream", !.maxRetries = PrimaryMaxRetries,
                                      !.records = Len(batch)],
                         batch, "success")]
    /\ UNCHANGED <<applied, outbox, dlq, dlqSent, now, faults, api, backoff, collisions, calls, metrics>>
    /\ Started

\* the invocation returns its results; the stream and DLQ handlers first call
\* recordBatch with their counts
Return(p) ==
    /\ procs[p].pc = "done"
    /\ \E mok \in (IF p = "api" THEN {TRUE} ELSE MetricOutcomes) :
         /\ procs' = [procs EXCEPT ![p] =
                         IF MetricThrows(mok) THEN [Idle EXCEPT !.out = "InvocationError"]
                                              ELSE Idle]
         /\ Emit(mok)
    /\ UNCHANGED <<applied, outbox, stream, dlq, dlqSent, now, faults, api, backoff, collisions, calls>>
    /\ UNCHANGED overlaps

\* does the operation of a finished invocation end by throwing to its caller:
\* processRecord and requeueFailedNotification rethrow, retryFailedNotifications
\* throws its ReferenceError, processMessage's catch returns { status: 'failed' },
\* processScheduledNotifications catches per entry and returns its counts
Throws(w) ==
    /\ w.pc = "done"
    /\ \/ w.job = "stream" /\ w.out = "failed"
       \/ w.job = "requeue" /\ w.out # "success"
       \/ w.job = "retryFailed"

\* ------------------------------------------------------------ DLQ processor
\* the three message formats processMessage accepts
DlqMessages(i) ==
    { [shape |-> "record",   id |-> i, image |-> InsertImage(outbox[i])],
      [shape |-> "outboxId", id |-> i, image |-> NoView],
      [shape |-> "entry",    id |-> i, image |-> View(outbox[i])] }

\* a body that has none of record.dynamodb.NewImage, outboxId, id
MalformedMessage == [shape |-> "malformed", id |-> 0, image |-> NoView]

\* the final else of processMessage: 'Unable to extract outbox entry from DLQ message'
IsMalformedNever(m) == FALSE

IsMalformed(m) == m.shape \notin {"record", "outboxId", "entry"}

\* a message arrives on the queue the processor reads: one about an existing
\* item, or one of no known format
RouteToDlq ==
    /\ EnvCanAct
    /\ \E m \in {MalformedMessage} \cup UNION {DlqMessages(i) : i \in {j \in Ids : Exists(j)}} :
         dlq' = dlq \cup {m}
    /\ dlqSent' = dlqSent + 1
    /\ UNCHANGED <<applied, outbox, stream, procs, overlaps, now, faults, api, backoff, collisions, calls, metrics>>

\* processMessage: the outbox entry the message stands for
ExtractEntry(m) ==
    IF m.shape = "outboxId" THEN View(outbox[m.id]) ELSE m.image

\* "Check if we've exceeded max retries"
BudgetSpentStrict(e) == e.retryCount > (IF e.maxRetries # 0 THEN e.maxRetries ELSE DlqDefaultMaxRetries)

BudgetSpent(e) ==
    e.retryCount >= (IF e.maxRetries # 0 THEN e.maxRetries ELSE DlqDefaultMaxRetries)

\* processMessage up to its first write or send
DlqReceive ==
    /\ CanStart("dlq")
    /\ \E m \in dlq :
         LET e == ExtractEntry(m) IN
         /\ dlq' = dlq \ {m}
         /\ procs' = [procs EXCEPT !["dlq"] =
              IF IsMalformed(m)
              THEN \* the throw is caught by processMessage's catch
                   [Idle EXCEPT !.pc = "done", !.job = "dlq", !.out = "failed",
                                !.err = "MalformedMessage",
                                !.records = 1, !.results.processed = 1,
                                !.results.failed = 1]
              ELSE IF e.status = "absent"
              THEN \* getOutboxEntry throws 'Outbox entry not found'
                   [Idle EXCEPT !.pc = "done", !.job = "dlq", !.out = "failed",
                                !.err = "NotFound",
                                !.records = 1, !.results.processed = 1,
                                !.results.failed = 1]
              ELSE IF BudgetSpent(e)
              THEN [Idle EXCEPT !.pc = "markPerm", !.job = "dlq", !.e = e,
                                !.records = 1, !.results.processed = 1,
                                !.clean = (View(outbox[e.id]) = e)]
              ELSE [Idle EXCEPT !.pc = "process", !.job = "dlq", !.e = e,
                                !.maxRetries = DlqMaxRetries,
                                !.records = 1, !.results.processed = 1,
                                !.clean = (View(outbox[e.id]) = e)]]
    /\ UNCHANGED <<applied, outbox, stream, dlqSent, now, faults, api, backoff, collisions, calls, metrics>>
    /\ Started

\* markAsPermanentlyFailed
MarkPerm ==
    LET w == procs["dlq"] IN
    /\ w.pc = "markPerm"
    /\ \E ok \in StoreOutcomes :
         IF ok
         THEN /\ outbox' = [outbox EXCEPT ![w.e.id] =
                    UpdateItem(@, "permanently_failed", "Exceeded maximum retry attempts", "none")]
              \* then incrementCounter('notifications.permanently_failed')
              /\ \E mok \in MetricOutcomes :
                    /\ procs' = Touch([procs EXCEPT !["dlq"] =
                          IF MetricThrows(mok)
                          THEN [Counted(w, "failed") EXCEPT
                                   !.pc = "done", !.out = "failed", !.err = "MetricError"]
                          ELSE [Counted(w, "permanentlyFailed") EXCEPT
                                   !.pc = "done", !.out = "permanently_failed"]],
                          "dlq", w.e.id)
                    /\ Emit(mok)
              /\ faults' = faults
              /\ Applied(w.e.id)
         ELSE \* the update throws; processMessage's catch returns 'failed'
              /\ procs' = [procs EXCEPT !["dlq"] =
                    [Counted(w, "failed") EXCEPT
                        !.pc = "done", !.out = "failed", !.err = StoreError,
                        !.clean = FALSE]]
              /\ faults' = faults + 1
              /\ UNCHANGED <<outbox, metrics, applied>>
    /\ UNCHANGED <<stream, dlq, dlqSent, now, api, backoff, collisions, calls>>
    /\ UNCHANGED overlaps

\* retryNotification's catch: update to 'failed' with 'DLQ retry failed: ...',
\* rethrow; processMessage's catch turns that into { status: 'failed' }
DlqMarkFailed ==
    LET w == procs["dlq"] IN
    /\ w.pc = "dlqMarkFailed"
    /\ \E ok \in StoreOutcomes :
         IF ok
         THEN /\ outbox' = [outbox EXCEPT ![w.e.id] =
                    UpdateItem(@, "failed", "DLQ retry failed", "none")]
              /\ procs' = Touch([procs EXCEPT !["dlq"] =
                    [Counted(w, "failed") EXCEPT !.pc = "done", !.out = "failed"]],
                    "dlq", w.e.id)
              /\ faults' = faults
              /\ Applied(w.e.id)
         ELSE /\ procs' = [procs EXCEPT !["dlq"] =
                    [Counted(w, "failed") EXCEPT
                        !.pc = "done", !.out = "failed", !.err = StoreError,
                        !.clean = FALSE]]
              /\ faults' = faults + 1
              /\ UNCHANGED <<outbox, applied>>
    /\ UNCHANGED <<stream, dlq, dlqSent, now, api, backoff, collisions, calls, metrics>>
    /\ UNCHANGED overlaps

\* ------------------------------------------------------ management surface
\* requeueFailedNotification: getOutboxEntry and the two checks
RequeueRead ==
    /\ CanStart("api")
    /\ \E i \in Ids :
         procs' = [procs EXCEPT !["api"] =
            IF ~Exists(i)
            THEN [Idle EXCEPT !.pc = "done", !.job = "requeue", !.out = "NotFound"]
            ELSE IF outbox[i].status # "failed"
            THEN [Idle EXCEPT !.pc = "done", !.job = "requeue", !.e = View(outbox[i]),
                              !.out = "NotFailed"]
            ELSE IF outbox[i].retryCount >= outbox[i].maxRetries
            THEN [Idle EXCEPT !.pc = "done", !.job = "requeue", !.e = View(outbox[i]),
                              !.out = "MaxRetriesExceeded"]
            ELSE [Idle EXCEPT !.pc = "requeueWrite", !.job = "requeue", !.e = View(outbox[i])]]
    /\ UNCHANGED <<applied, outbox, stream, dlq, dlqSent, now, faults, api, backoff, collisions, calls, metrics>>
    /\ Started

\* requeueFailedNotification: updateOutboxEntryStatus(outboxId, 'pending')
RequeueWrite ==
    LET w == procs["api"] IN
    /\ w.pc = "requeueWrite"
    /\ \E ok \in StoreOutcomes :
         IF ok
         THEN /\ outbox' = [outbox EXCEPT ![w.e.id] = UpdateItem(@, "pending", "none", "none")]
              /\ procs' = Touch([procs EXCEPT !["api"] =
                    [w EXCEPT !.pc = "done", !.out = "success"]], "api", w.e.id)
              /\ faults' = faults
         ELSE /\ procs' = [procs EXCEPT !["api"] =
                    [w EXCEPT !.pc = "done", !.out = "failed", !.err = StoreError,
                              !.clean = FALSE]]
              /\ faults' = faults + 1
              /\ UNCHANGED outbox
    /\ UNCHANGED <<applied, stream, dlq, dlqSent, now, api, backoff, collisions, calls, metrics>>
    /\ UNCHANGED overlaps

\* the scan filter of processScheduledNotifications:
\* #status = pending AND (attribute_not_exists(scheduledAt) OR scheduledAt <= :now);
\* storeInOutbox always writes the attribute, as a string or as NULL
ScanMatches(item) ==
    /\ item.status = "pending"
    /\ item.scheduledAt # NoSchedule
    /\ item.scheduledAt <= now

RECURSIVE ScanItems(_)
ScanItems(i) ==
    IF i > MaxEvents THEN <<>>
    ELSE (IF ScanMatches(outbox[i]) THEN <<View(outbox[i])>> ELSE <<>>) \o ScanItems(i + 1)

\* processScheduledNotifications: the scan; its entries are then processed in turn
ScanScheduled ==
    /\ CanStart("api")
    /\ procs' = [procs EXCEPT !["api"] =
          LET items == ScanItems(1) IN
          IF items = <<>>
          THEN [Idle EXCEPT !.pc = "done", !.job = "scan", !.out = "success"]
          ELSE [Idle EXCEPT !.pc = "process", !.job = "scan", !.e = Head(items),
                            !.todo = Tail(items)]]
    /\ UNCHANGED <<applied, outbox, stream, dlq, dlqSent, now, faults, api, backoff, collisions, calls, metrics>>
    /\ Started

\* retryFailedNotifications(): ScanCommand is not among the names the module
\* imports, so `new ScanCommand(params)` throws; the catch logs and rethrows
retryFailedNotifications ==
    /\ CanStart("api")
    /\ procs' = [procs EXCEPT !["api"] =
          [Idle EXCEPT !.pc = "done", !.job = "retryFailed", !.out = "ReferenceError"]]
    /\ UNCHANGED <<applied, outbox, stream, dlq, dlqSent, now, faults, api, backoff, collisions, calls, metrics>>
    /\ Started

\* ------------------------------------------------------------ store surface
\* an item attribute that is a number and is not there
NoCount == -1

Statuses == {"pending", "sent", "failed", "permanently_failed"}

\* the UpdateCommand is rejected by DynamoDB: `retryCount + :increment` on an item
\* (or a key) that has no retryCount
UpdateRejected(item, error) ==
    error # "none" /\ (item.status = "absent" \/ item.retryCount = NoCount)

\* the UpdateCommand has no ConditionExpression: on a key that has no item it
\* creates one, holding the key and the attributes the SET clause names
UpsertItem(i, item, status, error, result) ==
    IF item.status = "absent"
    THEN [NoEntry EXCEPT !.id = i, !.status = status, !.retryCount = NoCount,
                         !.result = result]
    ELSE UpdateItem(item, status, error, result)

\* updateOutboxEntryStatus(outboxId, status, error, result) called on its own
updateOutboxEntryStatus ==
    /\ EnvCanAct
    /\ \E i \in Ids, status \in Statuses, error \in {"none", "boom"},
          result \in {"none", "msg-SES"},
          ok \in {TRUE} \cup (IF EventsUsed + 1 < MaxEvents THEN {FALSE} ELSE {}) :
         LET outcome == IF ~ok THEN StoreError
                        ELSE IF UpdateRejected(outbox[i], error) THEN "ValidationException"
                        ELSE "ok"
         IN /\ outbox' = IF outcome = "ok"
                         THEN [outbox EXCEPT ![i] = UpsertItem(i, @, status, error, result)]
                         ELSE outbox
            /\ procs' = IF outcome = "ok" THEN Touch(procs, "client", i) ELSE procs
            /\ faults' = faults + (IF ok THEN 0 ELSE 1)
            /\ IF outcome = "ok" /\ error # "none" THEN Applied(i) ELSE UNCHANGED applied
            /\ api' = [op |-> "updateOutboxEntryStatus",
                       input |-> [status |-> status, error |-> error, result |-> result],
                       status |-> outcome, id |-> i, seq |-> 1 - api.seq]
    /\ calls' = calls + 1
    /\ UNCHANGED <<stream, dlq, dlqSent, overlaps, now, backoff, collisions, metrics>>

\* getNotificationStatus(notificationId): `new ScanCommand(params)` names a class
\* the module does not import; the catch logs the ReferenceError and rethrows
getNotificationStatus ==
    /\ \E i \in Ids :
         api' = [op |-> "getNotificationStatus", input |-> NoInput,
                 status |-> "ReferenceError", id |-> i, seq |-> 1 - api.seq]
    /\ UNCHANGED <<applied, outbox, stream, dlq, dlqSent, procs, overlaps, now, faults, backoff,
                   collisions, calls, metrics>>

\* the scan filter of cleanupOldEntries:
\* createdAt < :cutoff AND (#status = :sentStatus OR #status = :failedStatus)
CleanupMatches(item, old) ==
    /\ item.id \in old
    /\ item.status \in {"sent", "failed"}

RECURSIVE CleanupItems(_, _)
CleanupItems(i, old) ==
    IF i > MaxEvents THEN <<>>
    ELSE (IF CleanupMatches(outbox[i], old) THEN <<View(outbox[i])>> ELSE <<>>)
             \o CleanupItems(i + 1, old)

\* cleanupOldEntries(daysOld): the scan; old is the set of entries created before
\* the cutoff that daysOld gives
CleanupScan ==
    /\ CanStart("api")
    /\ \E old \in SUBSET {i \in Ids : Exists(i)} :
         procs' = [procs EXCEPT !["api"] =
            LET items == CleanupItems(1, old) IN
            IF items = <<>>
            THEN [Idle EXCEPT !.pc = "done", !.job = "cleanup", !.out = "success"]
            ELSE [Idle EXCEPT !.pc = "delete", !.job = "cleanup", !.e = Head(items),
                              !.todo = Tail(items)]]
    /\ UNCHANGED <<applied, outbox, stream, dlq, dlqSent, now, faults, api, backoff, collisions, calls, metrics>>
    /\ Started

\* cleanupOldEntries: DeleteCommand of the next entry found; a failure is caught
\* and logged, and the loop goes on
CleanupDelete ==
    LET w == procs["api"]
        next == IF w.todo # <<>>
                THEN [w EXCEPT !.e = Head(w.todo), !.todo = Tail(w.todo)]
                ELSE [w EXCEPT !.pc = "done", !.out = "success"]
    IN
    /\ w.pc = "delete"
    /\ \E ok \in StoreOutcomes :
         IF ok
         THEN /\ outbox' = [outbox EXCEPT ![w.e.id] = NoEntry]
              /\ procs' = [procs EXCEPT !["api"] = next]
              /\ faults' = faults
              /\ applied' = [applied EXCEPT ![w.e.id] = 0]
         ELSE /\ procs' = [procs EXCEPT !["api"] = [next EXCEPT !.clean = FALSE]]
              /\ faults' = faults + 1
              /\ UNCHANGED <<outbox, applied>>
    /\ UNCHANGED <<stream, dlq, dlqSent, now, api, backoff, collisions, calls, metrics>>
    /\ UNCHANGED overlaps

\* counts that would be kept only for the statuses the stats object starts with
StatsAddKnownKeys(stats, entry) ==
    [stats EXCEPT ![entry.status] = IF entry.status \in {"pending", "sent", "failed"}
                                    THEN @ + 1 ELSE @,
                  !.scheduled = @ + (IF Future(entry.scheduledAt) THEN 1 ELSE 0)]

\* the body of entries.forEach in getOutboxStats:
\* stats[entry.status] = (stats[entry.status] || 0) + 1, and stats.scheduled++
\* for an entry scheduled after now
StatsAdd(stats, entry) ==
    [stats EXCEPT ![entry.status] = @ + 1,
                  !.scheduled = @ + (IF Future(entry.scheduledAt) THEN 1 ELSE 0)]

\* entries.forEach of getOutboxStats, over the items of the scan in turn
RECURSIVE StatsOver(_, _)
StatsOver(i, stats) ==
    IF i > MaxEvents THEN stats
    ELSE IF ~Exists(i) THEN StatsOver(i + 1, stats)
    ELSE StatsOver(i + 1, StatsAdd(stats, outbox[i]))

\* getOutboxStats(): one scan of the table, then the counts
getOutboxStats ==
    /\ CanStart("api")
    /\ procs' = [procs EXCEPT !["api"] =
          [Idle EXCEPT !.pc = "done", !.job = "stats", !.out = "success",
                       !.stats = StatsOver(1, [NoStats EXCEPT
                                      !.total = Cardinality({i \in Ids : Exists(i)})])]]
    /\ UNCHANGED <<applied, outbox, stream, dlq, dlqSent, now, faults, api, backoff, collisions, calls, metrics>>
    /\ Started

\* --------------------------------------------------------------- API routes
Methods == {"GET", "POST", "PUT", "DELETE"}

\* event.path split at '/': the pieces of a path with a leading slash, with or
\* without a trailing one
RoutePaths ==
    LET roots == {"notifications", "templates", "subscribers", "health", "stats",
                  "outbox", "other"}
        seconds == {"bulk", "retry", "failed", "requeue", "n-1"}
        segs == {<<>>} \cup {<<a>> : a \in roots}
                       \cup {<<a, b>> : a \in roots, b \in seconds}
                       \cup {<<"outbox", "requeue", "n-1">>}
    IN {<<"">> \o p : p \in segs} \cup {<<"">> \o p \o <<"">> : p \in segs}

\* path.split('/').filter(segment => segment !== '')
PathSegments(pieces) == SelectSeq(pieces, LAMBDA segment : segment # "")

\* pathSegments[k] (0-based in the code): the empty string stands for undefined
Segment(segs, k) == IF k + 1 <= Len(segs) THEN segs[k + 1] ELSE ""

\* routeRequest: the handler of the first rule whose condition holds
RouteRequest(method, pieces) ==
    LET p0 == Segment(PathSegments(pieces), 0)
        p1 == Segment(PathSegments(pieces), 1)
        p2 == Segment(PathSegments(pieces), 2)
    IN
    IF method = "POST" /\ p0 = "notifications" THEN "handleSendNotification"
    ELSE IF method = "POST" /\ p0 = "notifications" /\ p1 = "bulk"
         THEN "handleBulkNotifications"
    ELSE IF method = "GET" /\ p0 = "notifications" /\ p1 # ""
         THEN "handleGetNotificationStatus"
    ELSE IF method = "POST" /\ p0 = "notifications" /\ p1 = "retry"
         THEN "handleRetryFailedNotifications"
    ELSE IF method = "POST" /\ p0 = "templates" THEN "handleCreateTemplate"
    ELSE IF method = "GET" /\ p0 = "templates" /\ p1 = "" THEN "handleListTemplates"
    ELSE IF method = "GET" /\ p0 = "templates" /\ p1 # "" THEN "handleGetTemplate"
    ELSE IF method = "PUT" /\ p0 = "templates" /\ p1 # "" THEN "handleUpdateTemplate"
    ELSE IF method = "DELETE" /\ p0 = "templates" /\ p1 # "" THEN "handleDeleteTemplate"
    ELSE IF method = "POST" /\ p0 = "subscribers" THEN "handleCreateSubscriber"
    ELSE IF method = "GET" /\ p0 = "subscribers" /\ p1 = "" THEN "handleListSubscribers"
    ELSE IF method = "GET" /\ p0 = "subscribers" /\ p1 # "" THEN "handleGetSubscriber"
    ELSE IF method = "PUT" /\ p0 = "subscribers" /\ p1 # "" THEN "handleUpdateSubscriber"
    ELSE IF method = "DELETE" /\ p0 = "subscribers" /\ p1 # ""
         THEN "handleDeleteSubscriber"
    ELSE IF method = "GET" /\ p0 = "health" THEN "handleHealthCheck"
    ELSE IF method = "GET" /\ p0 = "stats" THEN "handleGetStats"
    ELSE IF method = "GET" /\ p0 = "outbox" /\ p1 = "failed"
         THEN "handleGetFailedNotifications"
    ELSE IF method = "POST" /\ p0 = "outbox" /\ p1 = "requeue" /\ p2 # ""
         THEN "handleRequeueNotification"
    ELSE "404"

\* a request arrives and is routed
routeRequest ==
    /\ \E method \in Methods, pieces \in RoutePaths :
         api' = [op |-> "routeRequest", input |-> [method |-> method, path |-> pieces],
                 status |-> RouteRequest(method, pieces), id |-> 0, seq |-> 1 - api.seq]
    /\ UNCHANGED <<applied, outbox, stream, dlq, dlqSent, procs, overlaps, now, faults, backoff,
                   collisions, calls, metrics>>

\* --------------------------------------------------------- backoff delays
\* one run of exponentialBackoff whose operation fails on every attempt;
\* slept is the delay given to sleep(), in units of 1/(2 * JitterSteps) ms
RECURSIVE Pow(_, _)
Pow(b, n) == IF n = 0 THEN 1 ELSE b * Pow(b, n - 1)

Min(a, b) == IF a < b THEN a ELSE b

\* Math.min(baseDelay * Math.pow(factor, attempt), maxDelay)
DelayUncapped(baseDelay, factor, maxDelay, attempt) == baseDelay * Pow(factor, attempt)

Delay(baseDelay, factor, maxDelay, attempt) ==
    Min(baseDelay * Pow(factor, attempt), maxDelay)

\* delay * (0.5 + Math.random() * 0.5), with Math.random() = r / JitterSteps
Jitter(delay, r) == delay * (JitterSteps + r)

NoRun ==
    [pc |-> "none", maxRetries |-> 0, baseDelay |-> 0, maxDelay |-> 0, factor |-> 0,
     jitter |-> FALSE, attempt |-> 0, delay |-> 0, prev |-> 0, slept |-> 0]

BackoffArgs ==
    [maxRetries : {2, 3}, baseDelay : {1000, 2000}, maxDelay : {3000, 10000, 30000},
     factor : {1, 2}, jitter : BOOLEAN]

\* exponentialBackoff(fn, maxRetries, baseDelay, maxDelay, factor, jitter) is called
BackoffCall ==
    /\ backoff.pc \in {"none", "thrown"}
    /\ \E a \in BackoffArgs :
         backoff' = [NoRun EXCEPT !.pc = "running", !.maxRetries = a.maxRetries,
                                  !.baseDelay = a.baseDelay, !.maxDelay = a.maxDelay,
                                  !.factor = a.factor, !.jitter = a.jitter]
    /\ UNCHANGED <<applied, outbox, stream, dlq, dlqSent, procs, overlaps, now, faults, api, collisions, calls, metrics>>

\* fn() throws: the last attempt rethrows, any other computes the delay and sleeps
BackoffCatch ==
    /\ backoff.pc = "running"
    /\ IF backoff.attempt = backoff.maxRetries
       THEN backoff' = [backoff EXCEPT !.pc = "thrown"]
       ELSE LET d == Delay(backoff.baseDelay, backoff.factor, backoff.maxDelay,
                           backoff.attempt)
            IN \E r \in 0..(JitterSteps - 1) :
                 backoff' = [backoff EXCEPT
                    !.attempt = @ + 1,
                    !.prev = backoff.delay,
                    !.delay = d,
                    !.slept = IF backoff.jitter THEN Jitter(d, r)
                                               ELSE d * 2 * JitterSteps]
    /\ UNCHANGED <<applied, outbox, stream, dlq, dlqSent, procs, overlaps, now, faults, api, collisions, calls, metrics>>

\* -------------------------------------------------------------------- time
Tick ==
    /\ EnvCanAct
    /\ now' = now + 1
    /\ UNCHANGED <<applied, outbox, stream, dlq, dlqSent, procs, overlaps, faults, api, backoff, collisions, calls, metrics>>

\* ----------------------------------------------------------- specification
InitPipeline ==
    /\ outbox = [i \in Ids |-> NoEntry]
    /\ stream = {}
    /\ dlq = {}
    /\ dlqSent = 0
    /\ procs = [p \in Procs |-> Idle]
    /\ overlaps = 0
    /\ now = 0
    /\ faults = 0
    /\ api = NoCall
    /\ backoff = NoRun
    /\ collisions = 0
    /\ calls = 0
    /\ applied = [i \in Ids |-> 0]

\* the metric sink answers every call
Init == InitPipeline /\ metrics = SinkUp

\* the metric sink can fail
InitMetrics == InitPipeline /\ metrics = SinkFailing

Next ==
    \/ storeInOutbox
    \/ StreamDispatch
    \/ \E p \in Procs : ProcessSend(p)
    \/ \E p \in Procs : MarkSent(p)
    \/ \E p \in Procs : MarkFailed(p)
    \/ \E p \in Procs : Return(p)
    \/ RouteToDlq
    \/ DlqReceive
    \/ MarkPerm
    \/ DlqMarkFailed
    \/ RequeueRead
    \/ RequeueWrite
    \/ ScanScheduled
    \/ retryFailedNotifications
    \/ Tick

Spec == Init /\ [][Next]_vars

\* the write path on its own: the calls an API client makes
NextWrite == sendNotification

SpecWrite == Init /\ [][NextWrite]_vars

\* enqueueing with identifiers that may collide, and the stream handler
NextEnqueue ==
    \/ storeInOutboxAnyId
    \/ StreamDispatch
    \/ ProcessSend("stream")
    \/ MarkSent("stream")
    \/ MarkFailed("stream")
    \/ Return("stream")

SpecEnqueue == Init /\ [][NextEnqueue]_vars

\* the store surface on its own: entries are stored, updated and cleaned up by
\* direct calls
NextStore ==
    \/ storeInOutbox
    \/ updateOutboxEntryStatus
    \/ getNotificationStatus
    \/ CleanupScan
    \/ CleanupDelete
    \/ Return("api")

SpecStore == Init /\ [][NextStore]_vars

\* the API router on its own
NextRoute == routeRequest

SpecRoute == Init /\ [][NextRoute]_vars

\* the stream handler given records of every kind
NextStream ==
    \/ storeInOutbox
    \/ StreamDispatch
    \/ StreamDeliverAny
    \/ ProcessSend("stream")
    \/ MarkSent("stream")
    \/ MarkFailed("stream")
    \/ Return("stream")
    \/ Tick

SpecStream == Init /\ [][NextStream]_vars

\* the stream handler given batches of several records
NextBatch ==
    \/ storeInOutbox
    \/ StreamDispatchBatch
    \/ ProcessSend("stream")
    \/ MarkSent("stream")
    \/ MarkFailed("stream")
    \/ Return("stream")
    \/ Tick

SpecBatch == Init /\ [][NextBatch]_vars

\* enqueue, dispatch and escalation with a metric sink that can fail
NextMetrics ==
    \/ sendNotificationSample
    \/ storeInOutbox
    \/ StreamDispatch
    \/ \E p \in {"stream", "dlq"} : ProcessSend(p)
    \/ \E p \in {"stream", "dlq"} : MarkSent(p)
    \/ \E p \in {"stream", "dlq"} : MarkFailed(p)
    \/ \E p \in {"stream", "dlq"} : Return(p)
    \/ RouteToDlq
    \/ DlqReceive
    \/ MarkPerm
    \/ DlqMarkFailed

SpecMetrics == InitMetrics /\ [][NextMetrics]_vars

\* the backoff engine on its own
NextBackoff ==
    \/ BackoffCall
    \/ BackoffCatch

SpecBackoff == Init /\ [][NextBackoff]_vars

\* the two handlers, each invoked with one record or one message
NextRecords ==
    \/ storeInOutbox
    \/ StreamDispatch
    \/ \E p \in {"stream", "dlq"} : ProcessSend(p)
    \/ \E p \in {"stream", "dlq"} : MarkSent(p)
    \/ \E p \in {"stream", "dlq"} : MarkFailed(p)
    \/ \E p \in {"stream", "dlq"} : Return(p)
    \/ RouteToDlq
    \/ DlqReceive
    \/ MarkPerm
    \/ DlqMarkFailed

SpecRecords == Init /\ [][NextRecords]_vars

\* every provider call and store call of a running handler returns (with a
\* result or an error), and the handler goes on
LiveRecords ==
    /\ SpecRecords
    /\ \A p \in {"stream", "dlq"} : WF_vars(ProcessSend(p))
    /\ \A p \in {"stream", "dlq"} : WF_vars(MarkSent(p))
    /\ \A p \in {"stream", "dlq"} : WF_vars(MarkFailed(p))
    /\ \A p \in {"stream", "dlq"} : WF_vars(Return(p))
    /\ WF_vars(MarkPerm)
    /\ WF_vars(DlqMarkFailed)

\* the two handlers, the stream handler also invoked with batches of records
NextHandlers ==
    \/ NextRecords
    \/ StreamDispatchBatch

SpecHandlers == Init /\ [][NextHandlers]_vars

\* the two handlers, and status updates that other callers send to the store
\* for entries of the table while they run
NextWriters ==
    \/ NextRecords
    \/ updateOutboxEntryStatus /\ Exists(api'.id)

SpecWriters == Init /\ [][NextWriters]_vars

\* the handlers, the clock, and the statistics read while they work
NextStats ==
    \/ NextRecords
    \/ Tick
    \/ getOutboxStats
    \/ Return("api")

SpecStats == Init /\ [][NextStats]_vars

\* bulk calls of a client, on a table that also gets entries of its own
NextBulk ==
    \/ sendBulkNotifications
    \/ storeInOutbox

SpecBulk == Init /\ [][NextBulk]_vars

\* every invocation that starts runs to its end, records and messages that are
\* waiting are handed to their handler, and the periodic scan keeps running;
\* nothing obliges a client to requeue an entry, a message to be routed to the
\* queue, or time to pass
LiveSpec ==
    /\ Spec
    /\ SF_vars(StreamDispatch)
    /\ SF_vars(DlqReceive)
    /\ SF_vars(ScanScheduled)
    /\ \A p \in Procs : WF_vars(ProcessSend(p))
    /\ \A p \in Procs : WF_vars(MarkSent(p))
    /\ \A p \in Procs : WF_vars(MarkFailed(p))
    /\ \A p \in Procs : WF_vars(Return(p))
    /\ WF_vars(MarkPerm)
    /\ WF_vars(DlqMarkFailed)
    /\ WF_vars(RequeueWrite)

\* ------------------------------------------------------------------ claims
Terminal == {"sent", "permanently_failed"}

\* C1: every valid sendNotification input (type email/sms, recipient valid for
\* the type, an existing active compatible template, all variables bound,
\* scheduledAt given or omitted) persists an outbox entry that reads back as
\* pending with retryCount 0 and maxRetries 3, and the call returns "queued".
C1_ValidInput(input) ==
    /\ input.type \in {"email", "sms"}
    /\ RecipientOk(input.type, input.recipient)
    /\ input.templateId \in DOMAIN TemplateTable
    /\ TemplateTable[input.templateId].isActive
    /\ TemplateTable[input.templateId].type \in {"both", input.type}
    /\ TemplateTable[input.templateId].variables \subseteq input.variables
    /\ input.scheduledAt.kind \in {"undefined", "string", "Date"}

C1_ValidInputIsQueued ==
    (api.op = "sendNotification" /\ C1_ValidInput(api.input))
        => /\ api.status = "queued"
           /\ api.id \in Ids
           /\ outbox[api.id].status = "pending"
           /\ outbox[api.id].retryCount = 0
           /\ outbox[api.id].maxRetries = 3

\* C2: sendNotification returns "queued" only with the entry written by that
\* call, and a call that fails (validation, template, variables, marshalling or
\* store error) leaves the outbox and its stream as they were.
C2_QueuedOnlyWhenPersisted ==
    [][(api'.seq # api.seq /\ api'.op = "sendNotification")
          => /\ api'.status = "queued"
                  => /\ api'.id \in Ids
                     /\ outbox[api'.id].status = "absent"
                     /\ outbox'[api'.id].status = "pending"
             /\ api'.status # "queued"
                  => /\ outbox' = outbox
                     /\ stream' = stream]_vars

C2_Witness ==
    /\ api.op = "sendNotification"
    /\ api.status = "MarshallError"
    /\ api.input.scheduledAt.kind = "string"
    /\ \A i \in Ids : ~Exists(i)

\* C3: the stored status of an entry never changes once it is sent or
\* permanently_failed.
C3_ForwardOnly ==
    [][\A i \in Ids :
          outbox[i].status \in Terminal => outbox'[i].status = outbox[i].status]_vars

\* C4: retryCount > maxRetries implies status permanently_failed, in every
\* reachable state of every entry.
C4_RetryBudget ==
    \A i \in Ids :
        (Exists(i) /\ outbox[i].retryCount > outbox[i].maxRetries)
            => outbox[i].status = "permanently_failed"

\* C5: every entry whose scheduled time has passed eventually reaches sent or
\* permanently_failed.
C5_EventuallyTerminal ==
    \A i \in Ids :
        (Exists(i) /\ (outbox[i].scheduledAt = NoSchedule \/ outbox[i].scheduledAt <= now))
            ~> (outbox[i].status \in Terminal)

\* one insert event was dispatched for an entry that was as its image says,
\* nothing else wrote the entry, no store call failed, and every send failed
C6_AllSendsFailed ==
    /\ procs["stream"].pc = "done"
    /\ procs["stream"].out = "failed"
    /\ procs["stream"].clean

C8_IsFuture(i) ==
    /\ outbox[i].status # "absent"
    /\ outbox[i].scheduledAt # NoSchedule
    /\ outbox[i].scheduledAt > now

C8_State ==
    \A i \in Ids :
        C8_IsFuture(i)
            => /\ outbox[i].status = "pending"
               /\ outbox[i].retryCount = 0
               /\ \A p \in Procs :
                     (procs[p].e.id = i /\ procs[p].job \in {"stream", "dlq", "scan"})
                         => /\ procs[p].sends = 0
                            /\ procs[p].pc \in {"process", "done"}
                            /\ procs[p].pc = "done" => procs[p].out = "success"

C8_ScheduledInert ==
    /\ []C8_State
    /\ [][\A i \in Ids : C8_IsFuture(i) => outbox'[i] = outbox[i]]_vars

C8_Witness ==
    \E i \in Ids :
        /\ C8_IsFuture(i)
        /\ procs["dlq"].pc = "done"
        /\ procs["dlq"].e.id = i
        /\ stream = {}

\* C9: the escalation processor, given an entry with retryCount >= maxRetries
\* (3 when maxRetries is absent), calls no provider, writes status
\* permanently_failed and reports permanently_failed (unless that write fails).
C9_BudgetSpent(e) ==
    /\ e.id # 0
    /\ e.retryCount >= (IF e.maxRetries # 0 THEN e.maxRetries ELSE 3)

C9_PermanentlyFailed ==
    /\ [](C9_BudgetSpent(procs["dlq"].e)
            => /\ procs["dlq"].sends = 0
               /\ procs["dlq"].pc \in {"markPerm", "done"}
               /\ procs["dlq"].pc = "done"
                    => \/ procs["dlq"].out = "permanently_failed"
                       \/ procs["dlq"].out = "failed" /\ procs["dlq"].err = StoreError)
    /\ [][(/\ C9_BudgetSpent(procs["dlq"].e)
            /\ procs["dlq"].pc = "markPerm"
            /\ procs'["dlq"].out = "permanently_failed")
            => outbox'[procs["dlq"].e.id].status = "permanently_failed"]_vars

C9_Witness ==
    /\ procs["dlq"].pc = "done"
    /\ procs["dlq"].out = "permanently_failed"
    /\ procs["dlq"].e.retryCount = 3
    /\ procs["dlq"].sends = 0
    /\ procs["dlq"].clean
    /\ outbox[procs["dlq"].e.id].status = "permanently_failed"

\* C10: a status update with an error adds exactly 1 to retryCount, and no
\* other step changes retryCount.
C10_ErrorWrite(i) ==
    \E p \in Procs :
        /\ procs[p].e.id = i
        /\ procs[p].pc \in {"markFailed", "markPerm", "dlqMarkFailed"}
        /\ procs'[p].pc # procs[p].pc
        /\ faults' = faults

C10_RetryCountSteps ==
    [][\A i \in Ids :
          Exists(i)
            => outbox'[i].retryCount
                  = outbox[i].retryCount + (IF C10_ErrorWrite(i) THEN 1 ELSE 0)]_vars

C10_Witness ==
    \E i \in Ids :
        /\ outbox[i].status = "permanently_failed"
        /\ outbox[i].result # "none"
        /\ outbox[i].retryCount = 4

\* C11: whenever an entry's status changes to sent or to permanently_failed,
\* retryCount <= maxRetries held in the store just before the change.
C11_BudgetAtTerminal ==
    [][\A i \in Ids :
          (outbox'[i].status \in Terminal /\ outbox'[i].status # outbox[i].status)
              => outbox[i].retryCount <= outbox[i].maxRetries]_vars

\* C12: the backoff engine invokes the wrapped operation at most maxAttempts
\* times (its second argument), returns on the first success without another
\* invocation, and when every invocation fails it fails with the last error.
C12_AtMostMaxAttempts ==
    \A p \in {"stream", "dlq"} :
        procs[p].maxRetries > 0
            => /\ procs[p].attempt + 1 <= procs[p].maxRetries
               /\ (procs[p].pc = "done" /\ procs[p].out = "success" /\ procs[p].sends > 0 /\ procs[p].clean)
                     => outbox[procs[p].e.id].status = "sent"
               /\ (procs[p].pc = "done" /\ procs[p].job = "stream" /\ procs[p].out = "failed")
                     => procs[p].err # "none"

\* C13: the retry engine of the primary dispatch retries only retryable errors:
\* after the operation fails with a non-retryable error it is not invoked again.
C13_NonRetryableAborts ==
    [][(/\ procs["stream"].pc = "markFailed"
        /\ ~isRetryableError(procs["stream"].err)
        /\ faults' = faults)
          => procs'["stream"].pc # "process"]_vars

\* C14: the delay before the retry that follows attempt n is
\* min(baseDelay * factor^n, maxDelay) before jitter, it does not decrease from
\* one attempt to the next, it never exceeds maxDelay, and with jitter the delay
\* slept lies between half of it and all of it (without jitter it is all of it).
C14_DelayBound ==
    (backoff.pc # "none" /\ backoff.attempt > 0)
        => LET n == backoff.attempt - 1
               raw == backoff.baseDelay * Pow(backoff.factor, n)
           IN /\ backoff.delay = (IF raw <= backoff.maxDelay THEN raw ELSE backoff.maxDelay)
              /\ backoff.delay <= backoff.maxDelay
              /\ backoff.delay >= backoff.prev
              /\ backoff.slept <= backoff.delay * 2 * JitterSteps
              /\ backoff.slept >= backoff.delay * JitterSteps
              /\ ~backoff.jitter => backoff.slept = backoff.delay * 2 * JitterSteps

\* the third sleep of a run that has reached its cap, with jitter strictly inside
C14_Witness ==
    /\ backoff.attempt = 3
    /\ backoff.jitter
    /\ backoff.delay = backoff.maxDelay
    /\ backoff.prev < backoff.delay
    /\ backoff.slept > backoff.delay * JitterSteps
    /\ backoff.slept < backoff.delay * 2 * JitterSteps

\* C15: for one handled message whose entry is within its retry budget, the
\* escalation processor makes at most 2 provider send attempts.
C15_AtMostTwoSends ==
    procs["dlq"].job = "dlq" => procs["dlq"].sends <= 2

\* C16: when all escalation attempts for an entry fail, the entry is updated to
\* failed with the new error, and the error leaves the handling of the message
\* as a thrown error, not as a normal return.
C16_FailurePropagates ==
    (/\ procs["dlq"].pc = "done"
     /\ procs["dlq"].job = "dlq"
     /\ procs["dlq"].sends > 0
     /\ procs["dlq"].out = "failed"
     /\ procs["dlq"].clean)
        => /\ outbox[procs["dlq"].e.id].status = "failed"
           /\ outbox[procs["dlq"].e.id].error = "DLQ retry failed"
           /\ Throws(procs["dlq"])

\* C17: a DLQ message of none of the three formats ends its handling as failed
\* with the malformed-message error, in one step that calls no provider, writes
\* nothing to the store and consumes the message (no retry of it).
C17_MalformedRejected ==
    [][(\E m \in dlq : m.shape = "malformed" /\ m \notin dlq')
          => /\ outbox' = outbox
             /\ procs'["dlq"].pc = "done"
             /\ procs'["dlq"].out = "failed"
             /\ procs'["dlq"].err = "MalformedMessage"
             /\ procs'["dlq"].sends = 0
             /\ \A m \in dlq' : m.shape # "malformed"]_vars

C17_Witness ==
    /\ procs["dlq"].pc = "done"
    /\ procs["dlq"].err = "MalformedMessage"
    /\ procs["dlq"].sends = 0
    /\ \E i \in Ids : outbox[i].status = "pending"

\* C18: manual requeue goes on to its write only for an entry it read as
\* existing, failed and with retryCount < maxRetries; the write sets status to
\* pending and changes nothing else; in every other case (missing entry,
\* status not failed, retryCount >= maxRetries, store error) it throws and the
\* outbox is unchanged.
C18_RequeueFrame ==
    [][/\ (procs["api"].pc = "idle" /\ procs'["api"].job = "requeue")
            => /\ outbox' = outbox
               /\ procs'["api"].pc = "requeueWrite"
                    => /\ procs'["api"].e.id \in Ids
                       /\ outbox[procs'["api"].e.id].status = "failed"
                       /\ outbox[procs'["api"].e.id].retryCount
                              < outbox[procs'["api"].e.id].maxRetries
               /\ procs'["api"].pc # "requeueWrite"
                    => /\ Throws(procs'["api"])
                       /\ \/ procs'["api"].e.id = 0
                          \/ outbox[procs'["api"].e.id].status # "failed"
                          \/ outbox[procs'["api"].e.id].retryCount
                                 >= outbox[procs'["api"].e.id].maxRetries
       /\ (procs["api"].pc = "requeueWrite" /\ procs'["api"].pc # "requeueWrite")
            => IF procs'["api"].out = "success"
               THEN outbox' = [outbox EXCEPT ![procs["api"].e.id] =
                                  [@ EXCEPT !.status = "pending"]]
               ELSE outbox' = outbox /\ Throws(procs'["api"])]_vars

C18_Witness ==
    /\ procs["api"].pc = "done"
    /\ procs["api"].job = "requeue"
    /\ procs["api"].out = "success"
    /\ procs["api"].clean
    /\ outbox[procs["api"].e.id].status = "pending"
    /\ outbox[procs["api"].e.id].retryCount = 1
    /\ outbox[procs["api"].e.id].error # "none"

\* C19: an entry that a manual requeue has set back to pending is dispatched
\* again: it does not stay pending.
C19_RequeuedIsDispatched ==
    \A i \in Ids :
        (/\ procs["api"].pc = "done"
         /\ procs["api"].job = "requeue"
         /\ procs["api"].out = "success"
         /\ procs["api"].e.id = i
         /\ outbox[i].status = "pending")
            ~> (outbox[i].status # "pending")

\* C20: an enqueue whose identifier is already in the table leaves the
\* existing entry as it is (and fails with DuplicateEntry).
C20_NoOverwrite ==
    [][\A i \in Ids :
          (Exists(i) /\ collisions' # collisions) => outbox'[i] = outbox[i]]_vars

\* C23: status updates are applied unconditionally, last write wins: every
\* update that reaches the store sets the status it carries whatever the entry's
\* status is, so an entry that was sent can be left failed by a later update
\* from a stale copy.
C23_StatusWritten(p) ==
    IF procs[p].pc = "markSent" THEN "sent"
    ELSE IF procs[p].pc \in {"markFailed", "dlqMarkFailed"} THEN "failed"
    ELSE IF procs[p].pc = "markPerm" THEN "permanently_failed"
    ELSE "pending"

C24_CopyMatches ==
    \A p \in Procs :
        procs[p].e.id # 0
            => /\ procs[p].e.type = outbox[procs[p].e.id].type
               /\ procs[p].e.scheduledAt = outbox[procs[p].e.id].scheduledAt
               /\ procs[p].e.maxRetries = outbox[procs[p].e.id].maxRetries

C24_Frame ==
    /\ []C24_CopyMatches
    /\ [][\A i \in Ids :
            outbox[i].status # "absent"
                => /\ outbox'[i].status # "absent"
                   /\ outbox'[i].id = outbox[i].id
                   /\ outbox'[i].type = outbox[i].type
                   /\ outbox'[i].scheduledAt = outbox[i].scheduledAt
                   /\ outbox'[i].maxRetries = outbox[i].maxRetries]_vars

\* an entry created with a schedule, sent once the time had come
C24_Witness ==
    \E i \in Ids :
        /\ outbox[i].status = "sent"
        /\ outbox[i].scheduledAt # NoSchedule
        /\ outbox[i].maxRetries = 3

\* C28: for every message format, the escalation processor decides from the
\* entry as the store holds it when the message is handled: if the stored
\* retryCount is >= maxRetries the entry goes to be marked permanently_failed.
C28_DecisionFromStore ==
    [][(/\ procs["dlq"].pc = "idle"
        /\ procs'["dlq"].job = "dlq"
        /\ procs'["dlq"].e.id # 0
        /\ outbox[procs'["dlq"].e.id].retryCount >= outbox[procs'["dlq"].e.id].maxRetries)
          => /\ procs'["dlq"].pc = "markPerm"
             /\ procs'["dlq"].e.retryCount = outbox[procs'["dlq"].e.id].retryCount]_vars

\* C21: updateOutboxEntryStatus for an identifier that has no entry fails with
\* NotFound and creates no entry, whatever status, error and result it is given.
C21_UpdateRejectsMissing ==
    [][(/\ api'.seq # api.seq
        /\ api'.op = "updateOutboxEntryStatus"
        /\ outbox[api'.id].status = "absent")
          => /\ api'.status = "NotFound"
             /\ outbox' = outbox]_vars

\* C25: cleanup deletes only entries that are sent or permanently_failed
\* (and older than the retention window); it never deletes a pending or a
\* failed entry.
C25_DeletesOnlyTerminal ==
    [][\A i \in Ids :
          (outbox[i].status # "absent" /\ outbox'[i].status = "absent")
              => outbox[i].status \in {"sent", "permanently_failed"}]_vars

\* C27: getNotificationStatus changes nothing; for the id of a stored entry it
\* returns that entry's status, retryCount, error and result, and for an unknown
\* id it fails with a not-found error.
C27_StatusVisible ==
    [][(api'.seq # api.seq /\ api'.op = "getNotificationStatus")
          => /\ outbox' = outbox
             /\ IF outbox[api'.id].status = "absent"
                THEN api'.status = "NotFound"
                ELSE /\ api'.status = "found"
                     /\ api'.input = [status |-> outbox[api'.id].status,
                                      retryCount |-> outbox[api'.id].retryCount,
                                      error |-> outbox[api'.id].error,
                                      result |-> outbox[api'.id].result]]_vars

\* C26: each documented notification endpoint reaches its own handler:
\* POST /notifications the single send, POST /notifications/bulk the bulk
\* handler, POST /notifications/retry the retry-failed handler and
\* GET /notifications/{id} the status handler.
C26_Documented(method, segs) ==
    IF method = "POST" /\ segs = <<"notifications">> THEN "handleSendNotification"
    ELSE IF method = "POST" /\ segs = <<"notifications", "bulk">>
         THEN "handleBulkNotifications"
    ELSE IF method = "POST" /\ segs = <<"notifications", "retry">>
         THEN "handleRetryFailedNotifications"
    ELSE IF method = "GET" /\ Len(segs) = 2 /\ segs[1] = "notifications"
         THEN "handleGetNotificationStatus"
    ELSE "any"

C26_EndpointsRouted ==
    api.op = "routeRequest"
        => LET segs == SelectSeq(api.input.path, LAMBDA x : x # "")
               doc == C26_Documented(api.input.method, segs)
           IN doc # "any" => api.status = doc

\* C29: the stream processor goes on to a send only for an INSERT record whose
\* new image is there, is pending and is not scheduled for the future; any other
\* record ends at once as successful, with no provider call and no store write.
C29_Sent ==
    procs["stream"].sends > 0
        => /\ procs["stream"].event = "INSERT"
           /\ procs["stream"].e.id # 0
           /\ procs["stream"].e.status = "pending"

C29_OnlyPendingInserts ==
    /\ []C29_Sent
    /\ [][(procs["stream"].pc = "idle" /\ procs'["stream"].pc # "idle")
            => /\ outbox' = outbox
               /\ procs'["stream"].sends = 0
               /\ IF /\ procs'["stream"].event = "INSERT"
                     /\ procs'["stream"].e.id # 0
                     /\ procs'["stream"].e.status = "pending"
                     /\ \/ procs'["stream"].e.scheduledAt = NoSchedule
                        \/ procs'["stream"].e.scheduledAt <= now
                  THEN procs'["stream"].pc = "process"
                  ELSE /\ procs'["stream"].pc = "done"
                       /\ procs'["stream"].out = "success"]_vars

\* a MODIFY record with a pending image that is due, skipped
C29_Witness ==
    /\ procs["stream"].pc = "done"
    /\ procs["stream"].event = "MODIFY"
    /\ procs["stream"].e.status = "pending"
    /\ procs["stream"].e.scheduledAt = NoSchedule
    /\ procs["stream"].sends = 0
    /\ procs["stream"].out = "success"

\* C30: the stream handler works through a batch in the order received: every
\* send and store write is for the record it is on, it moves to the next record
\* that is to be dispatched only when the one it is on has returned or has failed
\* for the last time, and it ends only when no record of the batch is left.
C30_MovesOn(w, v) ==
    /\ \/ w.pc = "markSent"
       \/ w.pc = "markFailed" /\ w.attempt = w.maxRetries
    /\ \E k \in 1..Len(w.todo) :
         /\ v.todo = SubSeq(w.todo, k + 1, Len(w.todo))
         /\ v.e = w.todo[k].NewImage
         /\ \A j \in 1..(k - 1) : ~Dispatchable(w.todo[j])
         /\ \/ v.pc = "process" /\ Dispatchable(w.todo[k])
            \/ v.pc = "done" /\ k = Len(w.todo) /\ ~Dispatchable(w.todo[k])

C30_Sequential ==
    /\ [](procs["stream"].pc = "done" => procs["stream"].todo = <<>>)
    /\ [][(procs["stream"].pc \notin {"idle", "done"} /\ procs'["stream"] # procs["stream"])
            => /\ \A i \in Ids : i # procs["stream"].e.id => outbox'[i] = outbox[i]
               /\ \/ /\ procs'["stream"].e = procs["stream"].e
                     /\ procs'["stream"].todo = procs["stream"].todo
                  \/ C30_MovesOn(procs["stream"], procs'["stream"])]_vars

\* a batch whose first record failed on all four sends and whose next was sent
C30_Witness ==
    \E i, j \in Ids :
        /\ i # j
        /\ procs["stream"].pc = "done"
        /\ procs["stream"].e.id = j
        /\ procs["stream"].sends = 5
        /\ outbox[i].status = "failed"
        /\ outbox[i].retryCount = 4
        /\ outbox[j].status = "sent"

\* C22: a metric emission that fails changes nothing: the step of enqueue,
\* dispatch or escalation in which it fails writes the store and goes on (or
\* returns to its caller) exactly as it does when the emission succeeds.
C22_Step(p, from) ==
    /\ procs[p].pc = from
    /\ procs'[p].pc # from \/ procs'[p].attempt # procs[p].attempt

C22_MetricsSwallowed ==
    [][metrics'.failed # metrics.failed
         => /\ \A p \in {"stream", "dlq"} :
                 /\ C22_Step(p, "markSent")
                      => /\ outbox'[procs[p].e.id]
                               = UpdateItem(outbox[procs[p].e.id], "sent", "none", procs[p].res)
                         /\ procs'[p] = AfterReturn(p, procs[p])
                 /\ C22_Step(p, "markFailed")
                      => /\ outbox'[procs[p].e.id]
                               = UpdateItem(outbox[procs[p].e.id], "failed", procs[p].err, "none")
                         /\ procs'[p] = AfterThrow(p, procs[p], procs[p].err)
                 /\ C22_Step(p, "done")
                      => /\ outbox' = outbox
                         /\ procs'[p] = Idle
            /\ C22_Step("dlq", "markPerm")
                 => /\ outbox'[procs["dlq"].e.id].status = "permanently_failed"
                    /\ procs'["dlq"].pc = "done"
                    /\ procs'["dlq"].out = "permanently_failed"
            /\ api'.seq # api.seq
                 => /\ api'.status \in {SendStatus(api'.input, TRUE), SendStatus(api'.input, FALSE)}
                    /\ api'.status = "queued" <=> outbox' # outbox]_vars

\* an entry sent at the first attempt although the emission of
\* 'notifications.sent' failed
C22_Witness ==
    /\ metrics.failed = 1
    /\ api = NoCall
    /\ faults = 0
    /\ procs["stream"].pc = "done"
    /\ procs["stream"].out = "success"
    /\ procs["stream"].sends = 1
    /\ outbox[procs["stream"].e.id].status = "sent"

\* C31: a store failure on a status update during dispatch is not retried in
\* process: the step that handles it never leads the same invocation to another
\* provider send for that entry.
C31_StoreFailureEndsDispatch ==
    [][\A p \in {"stream", "dlq"} :
          (/\ procs[p].pc = "markFailed"
           /\ procs[p].err = StoreError \/ faults' = faults + 1
           /\ procs'[p].pc # procs[p].pc)
              => ~(procs'[p].pc = "process" /\ procs'[p].e.id = procs[p].e.id)]_vars

\* C32: every invocation of the stream handler and of the DLQ handler ends,
\* given that each provider call and store call returns: the attempts made for a
\* record never exceed the retry limit of the handler (4 sends for a stream
\* record, 3 for a message), and no invocation runs forever: each handler is
\* idle again and again.
C32_Terminates ==
    /\ [](/\ procs["stream"].attempt <= PrimaryMaxRetries
          /\ procs["stream"].sends <= PrimaryMaxRetries + 1
          /\ procs["dlq"].attempt <= DlqMaxRetries
          /\ procs["dlq"].sends <= DlqMaxRetries + 1)
    /\ \A p \in {"stream", "dlq"} : []<>(procs[p].pc = "idle")

\* a stream invocation at its end, after 4 sends for its record
C32_Witness ==
    /\ procs["stream"].pc = "done"
    /\ procs["stream"].attempt = PrimaryMaxRetries
    /\ procs["stream"].sends = PrimaryMaxRetries + 1
    /\ procs["stream"].out = "failed"

\* C33: the stored status of an entry becomes sent only by the write that
\* follows a provider send for that entry that returned success: every step that
\* writes status sent is the update of an invocation holding the provider's
\* result for that entry, and an invocation holds a result only from a send
\* that succeeded.
C33_SentWrite(i) ==
    /\ outbox'[i].status = "sent"
    /\ outbox'[i] # outbox[i]

C33_SentOnlyAfterSend ==
    [][/\ \A i \in Ids :
             C33_SentWrite(i)
                => \E p \in Procs :
                      /\ procs[p].pc = "markSent"
                      /\ procs[p].e.id = i
                      /\ procs[p].sends >= 1
                      /\ procs[p].res = ProviderResult(procs[p].e.type)
                      /\ outbox'[i].result = procs[p].res
                      /\ procs'[p].pc # "markSent" \/ procs'[p].e # procs[p].e
       /\ \A p \in Procs :
             (procs'[p].res # "none" /\ procs'[p].res # procs[p].res)
                => /\ procs[p].pc = "process"
                   /\ procs'[p].pc = "markSent"
                   /\ procs'[p].e = procs[p].e
                   /\ procs'[p].sends = procs[p].sends + 1]_vars

\* an entry marked sent after its second send, the first having failed
C33_Witness ==
    \E i \in Ids :
        /\ outbox[i].status = "sent"
        /\ outbox[i].retryCount = 1
        /\ outbox[i].result = ProviderResult(outbox[i].type)
        /\ procs["stream"].pc = "done"
        /\ procs["stream"].e.id = i
        /\ procs["stream"].sends = 2

\* C34: when the provider send has succeeded and the write of status sent
\* fails, the attempt is handled as a failure: nothing is stored by the failed
\* write, the catch writes status failed with the store's error and one more
\* retryCount, and the error goes to the retry loop, which (before its last
\* attempt) runs the send for the same entry again.
C34_Moved(p, from) ==
    /\ procs[p].pc = from
    /\ procs'[p].pc # from \/ procs'[p].attempt # procs[p].attempt

C34_SentWriteFailureResends ==
    [][\A p \in {"stream", "dlq"} :
          /\ (C34_Moved(p, "markSent") /\ faults' = faults + 1)
                => /\ procs'[p].pc = "markFailed"
                   /\ procs'[p].err = StoreError
                   /\ procs'[p].e = procs[p].e
                   /\ procs'[p].attempt = procs[p].attempt
                   /\ outbox' = outbox
          /\ (C34_Moved(p, "markFailed") /\ procs[p].err = StoreError /\ faults' = faults)
                => /\ outbox'[procs[p].e.id] =
                         [outbox[procs[p].e.id] EXCEPT !.status = "failed",
                                                       !.error = StoreError,
                                                       !.retryCount = @ + 1]
                   /\ procs[p].attempt < procs[p].maxRetries
                         => /\ procs'[p].pc = "process"
                            /\ procs'[p].e = procs[p].e
                            /\ procs'[p].attempt = procs[p].attempt + 1]_vars

\* an entry the provider accepted twice: the first sent write failed, the catch
\* stored the failure, and the second attempt was sent and marked sent
C34_Witness ==
    \E i \in Ids :
        /\ outbox[i].status = "sent"
        /\ outbox[i].error = StoreError
        /\ outbox[i].retryCount = 1
        /\ faults = 1
        /\ procs["stream"].pc = "done"
        /\ procs["stream"].e.id = i
        /\ procs["stream"].sends = 2
        /\ procs["stream"].attempt = 1

\* C35: no increment of retryCount is lost: whatever the interleaving of the
\* handlers and of other callers updating an entry, the retryCount stored for an
\* entry put by storeInOutbox equals the number of updates with an error that
\* the store has applied to it since it was put.
C35_NoLostIncrement ==
    \A i \in Ids :
        Exists(i) => outbox[i].retryCount = applied[i]

\* an entry whose count holds two increments: one by the stream handler, and one
\* by another caller that updated the entry while the handler was working on it
C35_Witness ==
    \E i \in Ids :
        /\ outbox[i].retryCount = 2
        /\ applied[i] = 2
        /\ procs["stream"].pc \in {"process", "markSent", "markFailed"}
        /\ procs["stream"].e.id = i
        /\ procs["stream"].attempt = 1
        /\ ~procs["stream"].clean
        /\ api.op = "updateOutboxEntryStatus"
        /\ api.id = i
        /\ api.status = "ok"
        /\ api.input.error # "none"

\* C36: batch accounting. A handler that has gone through its records returns
\* its counts and does not throw: there is no record left, processed equals the
\* number of records given, and processed = successful + failed for the
\* stream handler, successful + failed + permanentlyFailed for the DLQ handler,
\* whatever failed for the records.
C36_Accounted(w) ==
    /\ w.todo = <<>>
    /\ w.results.processed = w.records
    /\ w.results.processed
          = w.results.successful + w.results.failed + w.results.permanentlyFailed

C36_BatchAccounting ==
    /\ [](/\ procs["stream"].pc = "done"
             => /\ C36_Accounted(procs["stream"])
                /\ procs["stream"].results.permanentlyFailed = 0
          /\ procs["dlq"].pc = "done" => C36_Accounted(procs["dlq"]))
    /\ [][\A p \in {"stream", "dlq"} :
             (procs[p].pc = "done" /\ procs'[p].pc # "done") => procs'[p] = Idle]_vars

\* a batch of two records: one sent, and one that failed at all its 4 attempts
C36_Witness ==
    /\ procs["stream"].pc = "done"
    /\ procs["stream"].records = 2
    /\ procs["stream"].results =
          [processed |-> 2, successful |-> 1, failed |-> 1, permanentlyFailed |-> 0]
    /\ procs["stream"].out = "success"
    /\ procs["stream"].sends = PrimaryMaxRetries + 2

\* C37: retryFailedNotifications re-dispatches the entries that are failed with
\* retryCount < maxRetries when it scans: a call made while such an entry is in
\* the table goes on to reset it to pending and to process it.
C37_Eligible(i) ==
    /\ outbox[i].status = "failed"
    /\ outbox[i].retryCount < StoredMaxRetries

C37_RetriesEligible ==
    [][(/\ procs["api"].pc = "idle"
        /\ procs'["api"].job = "retryFailed"
        /\ \E i \in Ids : C37_Eligible(i))
          => /\ procs'["api"].pc # "done"
             /\ C37_Eligible(procs'["api"].e.id)]_vars

\* C38: getOutboxStats agrees with the table as it scans it: total is the number
\* of entries, each status count is the number of entries with that status
\* (so the four counts sum to total), scheduled is the number of entries whose
\* scheduledAt is in the future, whatever their status, and no entry is
\* modified.
C38_StatsConsistent ==
    [][(procs["api"].pc = "idle" /\ procs'["api"].job = "stats")
          => LET stats == procs'["api"].stats IN
             /\ stats.total = Cardinality({i \in Ids : outbox[i].status # "absent"})
             /\ \A st \in Statuses :
                   stats[st] = Cardinality({i \in Ids : outbox[i].status = st})
             /\ stats.pending + stats.sent + stats.failed + stats.permanently_failed
                   = stats.total
             /\ stats.scheduled
                   = Cardinality({i \in Ids : /\ outbox[i].status # "absent"
                                              /\ outbox[i].scheduledAt # NoSchedule
                                              /\ outbox[i].scheduledAt > now})
             /\ outbox' = outbox]_vars

\* the statistics of a table of two entries: one sent, one pending and
\* scheduled for later
C38_Witness ==
    /\ procs["api"].pc = "done"
    /\ procs["api"].job = "stats"
    /\ procs["api"].stats =
          [total |-> 2, pending |-> 1, sent |-> 1, failed |-> 0, scheduled |-> 1,
           permanently_failed |-> 0]

\* C39: sendBulkNotifications goes through every item in input order: an item
\* that fails is pushed to failed and the items after it are still attempted;
\* summary.total is the number of inputs and equals summary.successful +
\* summary.failed, and the call creates as many outbox entries as it reports
\* successful.
RECURSIVE C39_InOrder(_, _)
C39_InOrder(sub, full) ==
    IF sub = <<>> THEN TRUE
    ELSE IF full = <<>> THEN FALSE
    ELSE IF Head(sub) = Head(full) THEN C39_InOrder(Tail(sub), Tail(full))
    ELSE C39_InOrder(sub, Tail(full))

C39_BulkAccounting ==
    [][(api'.seq # api.seq /\ api'.op = "sendBulkNotifications")
          => /\ api'.summary.total = Len(api'.input)
             /\ api'.summary.total = api'.summary.successful + api'.summary.failed
             /\ api'.summary.successful = Len(api'.successful)
             /\ api'.summary.failed = Len(api'.failed)
             /\ C39_InOrder([k \in 1..Len(api'.failed) |-> api'.failed[k].notification],
                            api'.input)
             /\ \A k \in 1..Len(api'.failed) : api'.failed[k].error # "queued"
             /\ Cardinality({i \in Ids : outbox'[i].status # "absent"})
                   = Cardinality({i \in Ids : outbox[i].status # "absent"})
                        + api'.summary.successful
             /\ \A i \in Ids : outbox[i].status # "absent" => outbox'[i] = outbox[i]]_vars

\* a call with three items, the first rejected by validation, the second for a
\* template that does not exist, the third with an item that cannot be stored:
\* all three were attempted
C39_Witness ==
    /\ api.op = "sendBulkNotifications"
    /\ Len(api.input) = 3
    /\ api.summary = [total |-> 3, successful |-> 0, failed |-> 3]
    /\ api.failed[1].error = "ValidationError"
    /\ api.failed[2].error = "TemplateNotFound"
    /\ api.failed[3].error = "MarshallError"

====
